---------------------------- MODULE Spec2Model ----------------------------
(***************************************************************************)
(* MockRobotDriver (src/driver.py): the driver object's session fields,    *)
(* its four UI-mapped calls and the helpers they run, as a state machine.  *)
(*                                                                         *)
(* Python values are records [type, val]: type is the value's class and    *)
(* val its text as a sequence of string fragments (an f-string is the      *)
(* concatenation of its literal parts and its formatted fields), so that   *)
(* isinstance(), == between values of different classes, and "the message  *)
(* names p" are all computed, not assumed.                                 *)
(*                                                                         *)
(* A call runs to completion in one step (the driver is synchronous and    *)
(* blocking).  What the robot and the network do during the call is the    *)
(* call's environment: the outcome of connect(), and one outcome per       *)
(* command the call writes to the socket.                                  *)
(***************************************************************************)
EXTENDS Integers, Sequences, FiniteSets, TLC

VARIABLES
    connected,        \* self.connected
    ip_address,       \* self.ip_address : None or Some(ip)
    homed,            \* self.homed
    current_process,  \* self.current_process : None or Some(process id)
    socket,           \* self.socket : None or Some([fd, closed])
    selector,         \* self.selector : the descriptors it holds a key for
    watched,          \* the descriptors the kernel polls for the selector
    call,             \* the call the UI made last (the handlers log it)
    pre,              \* the session fields as that call found them
    sent,             \* the commands that call wrote to the socket, in order
    marks,            \* self.current_process as each of them was written
    result            \* how that call ended: a returned value or an exception

vars == <<connected, ip_address, homed, current_process, socket, selector,
          watched, call, pre, sent, marks, result>>

-----------------------------------------------------------------------------
(* Bounds of the model *)

\* process ids the robot hands out, and a prepared session may hold: 0..MaxPid
MaxPid == 1
\* file descriptors the operating system may give a new socket: 1..MaxFd
MaxFd == 2
\* parameter_names and parameter_values hold at most MaxLen entries
MaxLen == 2
\* commands one call may write to the socket before the model stops following it
MaxExchanges == 2

(* Program constants *)

\* self.valid_range = range(1,18)
RangeStart == 1
RangeStop == 18

-----------------------------------------------------------------------------
(* Python values *)

None == <<>>
Some(x) == <<x>>

Str(fragments) == [type |-> "str", val |-> fragments]
EmptyString == Str(<<>>)
PyNone == [type |-> "NoneType", val |-> <<>>]

\* isinstance(v, cls)
isinstance(v, cls) == v.type = cls

\* strings the tests pass as the operation: one that names no operation,
\* and the name of one
SmoothieString == Str(<<"Make smoothie">>)
TransferString == Str(<<"Transfer">>)

\* f"{x}" for an optional integer field
Format(x) == IF x = None THEN "None" ELSE ToString(x[1])

\* f"{x}" for an optional string field
FormatText(x) == IF x = None THEN "None" ELSE x[1]

\* class Operation(Enum)
Operation ==
    [PICK     |-> [type |-> "Operation", val |-> <<"Pick">>],
     PLACE    |-> [type |-> "Operation", val |-> <<"Place">>],
     TRANSFER |-> [type |-> "Operation", val |-> <<"Transfer">>]]

\* class ProcessStatus(Enum)
ProcessStatus ==
    [IN_PROGRESS           |-> [type |-> "ProcessStatus", val |-> <<"In Progress">>],
     FINISHED_SUCCESSFULLY |-> [type |-> "ProcessStatus", val |-> <<"Finished Successfully">>],
     TERMINATED_WITH_ERROR |-> [type |-> "ProcessStatus", val |-> <<"Terminated With Error">>]]

\* self.valid_names
valid_names == <<"Destination Location", "Source Location">>

\* a slip: the stop of the range is taken as its last value
valid_range_inclusive == RangeStart .. RangeStop

\* self.valid_range
valid_range == RangeStart .. (RangeStop - 1)

\* x in list
InList(x, list) == \E i \in 1..Len(list) : list[i] = x

\* list.index(x): the first index (0-based) holding x
IndexOf(x, list) == (CHOOSE i \in 1..Len(list) :
                        list[i] = x /\ \A j \in 1..(i-1) : list[j] # x) - 1

-----------------------------------------------------------------------------
(* How a piece of code ends.  d is the driver as the code leaves it. *)

Return(d, v) == [d |-> d, outcome |-> "return", value |-> v]
Raise(d, cls, msg) ==
    [d |-> d, outcome |-> "raise", value |-> [type |-> cls, val |-> <<msg>>]]

-----------------------------------------------------------------------------
(* The static error messages *)

not_connected_error ==
    Str(<<"Error: MockRobot is not connected. Press 'Open Connection' and then try your request again.">>)

process_running_error(process) ==
    Str(<<"Error: Another process is already running (process_id:",
          Format(process),
          "). Please wait for it to complete and try again">>)

not_initialized_error ==
    Str(<<"Error: MockRobot is not initialized. Press 'Initialize' and then try your request again.">>)


\* f"{v}" for a returned value
Fstr(v) == IF v.type = "NoneType" THEN <<"None">> ELSE v.val

-----------------------------------------------------------------------------
(* validate_inputs: operation, then names, then values; first failure wins *)

\* the first entry of list that is not in allowed (there is one)
FirstNotIn(list, allowed) ==
    list[CHOOSE i \in 1..Len(list) :
            list[i] \notin allowed /\ \A j \in 1..(i-1) : list[j] \in allowed]

invalid_operation_error ==
    Str(<<"Validation Error: Invalid operation. Supported operations are Pick, Place, and Transfer.">>)

invalid_name_error(name) ==
    Str(<<"Validation Error: Invalid parameter name: ", name,
          ". Select from valid names: ", "['Destination Location', 'Source Location']">>)

invalid_value_error(value) ==
    Str(<<"Validation Error: Invalid parameter value: ", ToString(value),
          ". Select from valid range: ", "range(1, 18)">>)

validate_inputs(operation, parameter_names, parameter_values) ==
    IF ~isinstance(operation, "Operation")
    THEN <<FALSE, invalid_operation_error>>
    ELSE IF \E i \in 1..Len(parameter_names) : ~InList(parameter_names[i], valid_names)
    THEN <<FALSE, invalid_name_error(
                    FirstNotIn(parameter_names, {valid_names[i] : i \in 1..Len(valid_names)}))>>
    ELSE IF \E i \in 1..Len(parameter_values) : parameter_values[i] \notin valid_range
    THEN <<FALSE, invalid_value_error(FirstNotIn(parameter_values, valid_range))>>
    ELSE <<TRUE, Str(<<"Inputs validated">>)>>

-----------------------------------------------------------------------------
(* The socket.  d.xs holds what the robot and the network do to the         *)
(* commands the call is still to write, one outcome per command:            *)
(*   "send_error"  send() raises (the connection is broken)                 *)
(*   "recv_error"  the socket turns readable and recv() raises              *)
(*   "no_reply"    nothing arrives within the one-second select()           *)
(*   any other     the text the robot answers                               *)
(* A call that writes more commands than d.xs holds is marked starved: the  *)
(* model then runs it again with one more outcome.                          *)

SendErrorDetail == "[Errno 32] Broken pipe"
RecvErrorDetail == "[Errno 104] Connection reset by peer"

\* socket.close(): the kernel drops a closed descriptor from the epoll set;
\* the selector keeps its key
CloseSocket(d) ==
    [d EXCEPT !.socket  = Some([fd |-> d.socket[1].fd, closed |-> TRUE]),
              !.watched = d.watched \ {d.socket[1].fd}]

\* self.socket.send(command.encode()); self.selector.select(timeout=1);
\* self.socket.recv(1024).decode()
Exchange(d, command) ==
    IF d.socket = None
    THEN [d |-> d, kind |-> "exception",
          text |-> "'NoneType' object has no attribute 'send'"]
    ELSE IF d.socket[1].closed
    THEN [d |-> d, kind |-> "exception", text |-> "[Errno 9] Bad file descriptor"]
    ELSE IF d.xs = <<>>
    THEN [d |-> [d EXCEPT !.starved = TRUE], kind |-> "timeout", text |-> ""]
    ELSE LET x  == Head(d.xs)
             d1 == [d EXCEPT !.xs = Tail(d.xs)]
             d2 == [d1 EXCEPT !.sent = Append(d1.sent, command),
                              !.marks = Append(d1.marks, d1.current_process)]
         IN  IF x = "send_error"
             THEN [d |-> d1, kind |-> "exception", text |-> SendErrorDetail]
             ELSE IF x = "no_reply" \/ d.socket[1].fd \notin d.watched
             THEN [d |-> d2, kind |-> "timeout", text |-> ""]
             ELSE IF x = "recv_error"
             THEN [d |-> d2, kind |-> "exception", text |-> RecvErrorDetail]
             ELSE [d |-> d2, kind |-> "response", text |-> x]

-----------------------------------------------------------------------------
(* Timeouts, in seconds *)

\* Initialize: self.monitor_process_completion(process_id, 120)
HomeTimeout == 120
\* pick / place: self.try_process(command, 300)
StartTimeout == 300
\* try_process: self.monitor_process_completion(process_id, 300)
CompletionTimeout == 300
\* monitor_process_completion: time.sleep(10)
PollInterval == 10

-----------------------------------------------------------------------------
(* get_status: one status query.  recv().decode() is a str, never a        *)
(* ProcessStatus member, so every answer comes back as an error string.    *)

\* get_status, once the socket has answered (or not)
get_status_reply(e) ==
    IF e.kind = "exception"
    THEN Return(e.d, Str(<<"Error: Failed to retrieve status: ", e.text>>))
    ELSE IF e.kind = "timeout"
    THEN Return(e.d, Str(<<"Error: Timeout waiting for response. Check connection.">>))
    ELSE IF isinstance(Str(<<e.text>>), "ProcessStatus")
    THEN Return(e.d, Str(<<e.text>>))
    ELSE Return(e.d, Str(<<"Error: Unexpected response: ", e.text>>))

get_status(d, process_id) ==
    get_status_reply(Exchange(d, "status%" \o ToString(process_id)))

\* hasattr(v, name): the methods the code calls on a status
hasattr(v, name) ==
    name \in (IF v.type = "str"
              THEN {"encode", "find", "startswith", "__contains__"}
              ELSE {"name", "value"})

\* v.contains(text), were there such a method: text is the message's lead
contains(v, text) == v.val # <<>> /\ v.val[1] \in {text, text \o ": "}

(* monitor_process_completion: the polling loop.  monitor_loop is one turn  *)
(* of the while loop, elapsed being t1 - t0 as the turn starts;             *)
(* monitor_poll is the turn's body once get_status has returned g.          *)
RECURSIVE monitor_loop(_, _, _, _)
RECURSIVE monitor_poll(_, _, _, _)

monitor_poll(g, process_id, timeout, t1) ==
    IF g.value = ProcessStatus.TERMINATED_WITH_ERROR
    THEN Return([g.d EXCEPT !.current_process = None],
                Str(<<"Error, process terminated with error: ",
                      "ProcessStatus.TERMINATED_WITH_ERROR">>))
    ELSE IF ~hasattr(g.value, "contains")
    THEN Raise(g.d, "AttributeError",
               "'" \o g.value.type \o "' object has no attribute 'contains'")
    ELSE IF contains(g.value, "Error")
    THEN Return(g.d, Str(<<"Error, process status could not be retrieved: ">>
                          \o g.value.val))
    ELSE IF t1 > timeout
    THEN Return(g.d, Str(<<"Error: Process timeout. Consider hard reset of instrument.">>))
    ELSE IF g.value = ProcessStatus.FINISHED_SUCCESSFULLY
    THEN Return([g.d EXCEPT !.current_process = None], g.value)
    ELSE monitor_loop(g.d, process_id, timeout, t1)

monitor_loop(d, process_id, timeout, elapsed) ==
    monitor_poll(get_status(d, process_id), process_id, timeout,
                 elapsed + PollInterval)

monitor_process_completion(d, process_id, timeout) ==
    IF d.current_process = None
    THEN Return(d, Str(<<"Error: Current process is None. Unexpected state.">>))
    ELSE monitor_loop(d, process_id, timeout, 0)

-----------------------------------------------------------------------------
(* try_process: send a command and read the process id                     *)

\* the integer a Python int holds
IntOf(v) == CHOOSE n \in (0 - MaxPid - 1)..MaxPid : ToString(n) = v.val[1]

\* try_process, once monitor_process_completion has ended as m
try_process_monitored(m) ==
    IF m.outcome = "raise" THEN m
    ELSE IF m.value = ProcessStatus.FINISHED_SUCCESSFULLY
    THEN Return(m.d, EmptyString)
    ELSE Return(m.d, PyNone)

\* try_process, once the socket has answered (or not): recv().decode() is a str
try_process_reply(e) ==
    IF e.kind = "exception"
    THEN Return(e.d, Str(<<"Error: Failed to start process: ", e.text>>))
    ELSE IF e.kind = "timeout"
    THEN Return(e.d, Str(<<"Error: Timeout waiting for response.">>))
    ELSE IF isinstance(Str(<<e.text>>), "int")
    THEN IF IntOf(Str(<<e.text>>)) < 0
         THEN Return(e.d, process_running_error(e.d.current_process))
         ELSE try_process_monitored(
                monitor_process_completion(
                    [e.d EXCEPT !.current_process = Some(IntOf(Str(<<e.text>>)))],
                    IntOf(Str(<<e.text>>)), CompletionTimeout))
    ELSE Return(e.d, Str(<<"Error: Unknown response: ", e.text>>))

\* timeout is None when the caller passes no timeout: the parameter has no
\* default, so Python raises TypeError before the body runs
try_process(d, command, timeout) ==
    IF timeout = None
    THEN Raise(d, "TypeError",
               "MockRobotDriver.try_process() missing 1 required positional argument: 'timeout'")
    ELSE try_process_reply(Exchange(d, command))

-----------------------------------------------------------------------------
(* pick, place, transfer *)

\* pick, once try_process has ended as r
pick_response(r) ==
    IF r.outcome = "raise" THEN r
    ELSE IF r.value # EmptyString
    THEN Return(r.d, Str(<<"Pick command failed: ">> \o Fstr(r.value)))
    ELSE Return(r.d, EmptyString)

pick(d, source_location) ==
    pick_response(try_process(d, "pick%" \o ToString(source_location),
                              Some(StartTimeout)))

\* place, once try_process has ended as r
place_response(r) ==
    IF r.outcome = "raise" THEN r
    ELSE IF r.value # EmptyString
    THEN Return(r.d, Str(<<"Place command failed: ">> \o Fstr(r.value)))
    ELSE Return(r.d, EmptyString)

place(d, destination_location) ==
    place_response(try_process(d, "place%" \o ToString(destination_location),
                               Some(StartTimeout)))

\* a slip: the place leg runs whatever the pick leg returned
transfer_place_always(r, destination_location) ==
    IF r.outcome = "raise" THEN r
    ELSE place(r.d, destination_location)

\* transfer, once pick has ended as r
transfer_place(r, destination_location) ==
    IF r.outcome = "raise" THEN r
    ELSE IF r.value # EmptyString THEN r
    ELSE place(r.d, destination_location)

transfer(d, parameter_names, parameter_values) ==
    IF ~InList("Source Location", parameter_names)
    THEN Raise(d, "ValueError", "'Source Location' is not in list")
    ELSE IF IndexOf("Source Location", parameter_names) >= Len(parameter_values)
    THEN Raise(d, "IndexError", "list index out of range")
    ELSE IF ~InList("Destination Location", parameter_names)
    THEN Raise(d, "ValueError", "'Destination Location' is not in list")
    ELSE IF IndexOf("Destination Location", parameter_names) >= Len(parameter_values)
    THEN Raise(d, "IndexError", "list index out of range")
    ELSE transfer_place(
            pick(d, parameter_values[IndexOf("Source Location", parameter_names) + 1]),
            parameter_values[IndexOf("Destination Location", parameter_names) + 1])

-----------------------------------------------------------------------------
(* The four UI-mapped calls *)

\* a slip: the connection is opened over the one that is open
OpenConnection_reconnects(d, ip, connect, fd) ==
    IF connect = "no_socket"
    THEN IF d.socket = None
         THEN Raise(d, "AttributeError", "'NoneType' object has no attribute 'close'")
         ELSE Return(CloseSocket(d),
                     Str(<<"Error: Failed to connect: ", "[Errno 24] Too many open files",
                           " Make sure the robot is on and connected power.">>))
    ELSE
    LET d1 == [d EXCEPT !.socket = Some([fd |-> fd, closed |-> FALSE])]
    IN  IF connect # "ok"
        THEN Return(CloseSocket(d1),
                    Str(<<"Error: Failed to connect: ", connect,
                          " Make sure the robot is on and connected power.">>))
        ELSE LET d2 == [d1 EXCEPT !.connected = TRUE, !.ip_address = Some(ip)]
             IN  IF fd \in d2.selector
                 THEN Raise(d2, "KeyError", "socket (FD " \o ToString(fd)
                                            \o ") is already registered")
                 ELSE Return([d2 EXCEPT !.selector = d2.selector \cup {fd},
                                        !.watched  = d2.watched \cup {fd}],
                             EmptyString)

\* connect is what socket.socket() and socket.connect() do: "ok", a refusal
\* or timeout of connect(), or "no_socket" when socket() itself raises;
\* fd is the descriptor the operating system gives the new socket
OpenConnection(d, ip, connect, fd) ==
    IF d.connected
    THEN Return(d, Str(<<"Connection already open on ", FormatText(d.ip_address),
                         ". Press 'Abort' to close the current connection before attempting to establish a new one">>))
    ELSE IF connect = "no_socket"
    THEN IF d.socket = None
         THEN Raise(d, "AttributeError", "'NoneType' object has no attribute 'close'")
         ELSE Return(CloseSocket(d),
                     Str(<<"Error: Failed to connect: ", "[Errno 24] Too many open files",
                           " Make sure the robot is on and connected power.">>))
    ELSE
    LET d1 == [d EXCEPT !.socket = Some([fd |-> fd, closed |-> FALSE])]
    IN  IF connect # "ok"
        THEN Return(CloseSocket(d1),
                    Str(<<"Error: Failed to connect: ", connect,
                          " Make sure the robot is on and connected power.">>))
        ELSE LET d2 == [d1 EXCEPT !.connected = TRUE, !.ip_address = Some(ip)]
             IN  IF fd \in d2.selector
                 THEN Raise(d2, "KeyError", "socket (FD " \o ToString(fd)
                                            \o ") is already registered")
                 ELSE Return([d2 EXCEPT !.selector = d2.selector \cup {fd},
                                        !.watched  = d2.watched \cup {fd}],
                             EmptyString)

\* Initialize, once monitor_process_completion has ended as m
Initialize_monitored(m) ==
    IF m.outcome = "raise" THEN m
    ELSE IF m.value = ProcessStatus.FINISHED_SUCCESSFULLY
    THEN Return([m.d EXCEPT !.homed = TRUE], EmptyString)
    ELSE Return(m.d,
                Str(<<"Initialization started but program errored before completion: ">>
                    \o Fstr(m.value)))

\* Initialize, once try_process has ended as r
Initialize_response(r) ==
    IF r.outcome = "raise" THEN r
    ELSE IF isinstance(r.value, "int")
    THEN Initialize_monitored(
            monitor_process_completion(r.d, IntOf(r.value), HomeTimeout))
    ELSE Return(r.d, Str(<<"Initialization not started: ">> \o Fstr(r.value)))

\* a slip: home is sent whether or not a process is marked as in flight
Initialize_passes_timeout(d) ==
    IF ~d.connected
    THEN Return(d, not_connected_error)
    ELSE Initialize_response(
            try_process(IF d.homed THEN [d EXCEPT !.homed = FALSE] ELSE d,
                        "home", Some(HomeTimeout)))

\* self.try_process("home") passes no timeout
Initialize(d) ==
    IF ~d.connected
    THEN Return(d, not_connected_error)
    ELSE Initialize_response(
            try_process(IF d.homed THEN [d EXCEPT !.homed = FALSE] ELSE d,
                        "home", None))

\* ExecuteOperation, once the inputs are validated: parameter_values[0] and
\* list.index() raise when the entry is not there
ExecuteOperation_dispatch(d, operation, parameter_names, parameter_values) ==
    IF operation = Operation.PICK
    THEN IF parameter_values = <<>>
         THEN Raise(d, "IndexError", "list index out of range")
         ELSE pick(d, parameter_values[1])
    ELSE IF operation = Operation.PLACE
    THEN IF parameter_values = <<>>
         THEN Raise(d, "IndexError", "list index out of range")
         ELSE place(d, parameter_values[1])
    ELSE IF operation = Operation.TRANSFER
    THEN transfer(d, parameter_names, parameter_values)
    ELSE Return(d, PyNone)

\* a slip: the connection check is left out
ExecuteOperation_no_connected_check(d, operation, parameter_names, parameter_values) ==
    IF ~d.homed
    THEN Return(d, not_initialized_error)
    ELSE IF d.current_process # None
    THEN Return(d, process_running_error(d.current_process))
    ELSE IF ~validate_inputs(operation, parameter_names, parameter_values)[1]
    THEN Return(d, validate_inputs(operation, parameter_names, parameter_values)[2])
    ELSE ExecuteOperation_dispatch(d, operation, parameter_names, parameter_values)

\* a slip: the process check is left out
ExecuteOperation_no_process_check(d, operation, parameter_names, parameter_values) ==
    IF ~d.connected
    THEN Return(d, not_connected_error)
    ELSE IF ~d.homed
    THEN Return(d, not_initialized_error)
    ELSE IF ~validate_inputs(operation, parameter_names, parameter_values)[1]
    THEN Return(d, validate_inputs(operation, parameter_names, parameter_values)[2])
    ELSE ExecuteOperation_dispatch(d, operation, parameter_names, parameter_values)

\* a slip: the inputs are validated before the session is looked at
ExecuteOperation_validates_first(d, operation, parameter_names, parameter_values) ==
    IF ~validate_inputs(operation, parameter_names, parameter_values)[1]
    THEN Return(d, validate_inputs(operation, parameter_names, parameter_values)[2])
    ELSE IF ~d.connected
    THEN Return(d, not_connected_error)
    ELSE IF ~d.homed
    THEN Return(d, not_initialized_error)
    ELSE IF d.current_process # None
    THEN Return(d, process_running_error(d.current_process))
    ELSE ExecuteOperation_dispatch(d, operation, parameter_names, parameter_values)

ExecuteOperation(d, operation, parameter_names, parameter_values) ==
    IF ~d.connected
    THEN Return(d, not_connected_error)
    ELSE IF ~d.homed
    THEN Return(d, not_initialized_error)
    ELSE IF d.current_process # None
    THEN Return(d, process_running_error(d.current_process))
    ELSE IF ~validate_inputs(operation, parameter_names, parameter_values)[1]
    THEN Return(d, validate_inputs(operation, parameter_names, parameter_values)[2])
    ELSE ExecuteOperation_dispatch(d, operation, parameter_names, parameter_values)

\* a slip: homed survives the Abort
Abort_keeps_homed(d) ==
    IF ~d.connected
    THEN Return(d, not_connected_error)
    ELSE IF d.current_process # None
    THEN Raise(d, "TypeError",
               "_process_running_error() missing 1 required positional argument: 'current_process'")
    ELSE Return([CloseSocket(d) EXCEPT !.connected = FALSE, !.ip_address = None],
                EmptyString)

\* a slip: ip_address survives the Abort
Abort_keeps_ip(d) ==
    IF ~d.connected
    THEN Return(d, not_connected_error)
    ELSE IF d.current_process # None
    THEN Raise(d, "TypeError",
               "_process_running_error() missing 1 required positional argument: 'current_process'")
    ELSE Return([CloseSocket(d) EXCEPT !.connected = FALSE, !.homed = FALSE],
                EmptyString)

\* a slip: the socket is left open
Abort_keeps_socket(d) ==
    IF ~d.connected
    THEN Return(d, not_connected_error)
    ELSE IF d.current_process # None
    THEN Raise(d, "TypeError",
               "_process_running_error() missing 1 required positional argument: 'current_process'")
    ELSE Return([d EXCEPT !.connected = FALSE, !.ip_address = None, !.homed = FALSE],
                EmptyString)

\* _process_running_error() is called without its argument: TypeError
Abort(d) ==
    IF ~d.connected
    THEN Return(d, not_connected_error)
    ELSE IF d.current_process # None
    THEN Raise(d, "TypeError",
               "_process_running_error() missing 1 required positional argument: 'current_process'")
    ELSE IF d.socket = None
    THEN Raise(d, "AttributeError", "'NoneType' object has no attribute 'close'")
    ELSE Return([CloseSocket(d) EXCEPT !.connected = FALSE,
                                       !.ip_address = None,
                                       !.homed = FALSE],
                EmptyString)

-----------------------------------------------------------------------------
(* What the UI may pass, and what the robot and the network may do *)

Ips == {"192.168.1.1", "127.0.0.1"}

ConnectOutcomes == {"ok", "[Errno 111] Connection refused", "timed out", "no_socket"}

Fds == 1..MaxFd

Pids == 0..MaxPid

\* members of Operation, and strings as the tests and the example pass them
Operations == {Operation.PICK, Operation.PLACE, Operation.TRANSFER,
               TransferString, SmoothieString}

Names == {"Source Location", "Destination Location", "Source"}

\* the ends of valid_range and their outer neighbours
Values == {RangeStart - 1, RangeStart, RangeStop - 1, RangeStop}

Lists(S) == UNION {[1..n -> S] : n \in 0..MaxLen}

\* the timeouts monitor_process_completion is called with
MonitorTimeouts == {HomeTimeout, CompletionTimeout}

Outcomes == {"send_error", "recv_error", "no_reply"}
            \cup {ToString(n) : n \in (0 - 1)..MaxPid}
            \cup {"Error: busy", "In Progress", "Finished Successfully",
                  "Terminated With Error"}

-----------------------------------------------------------------------------
(* The state machine *)

NoCall == [name |-> "none", ip |-> "", connect |-> "", fd |-> 0,
           operation |-> PyNone, parameter_names |-> <<>>,
           parameter_values |-> <<>>, process_id |-> 0, timeout |-> 0,
           xs |-> <<>>]

NoResult == [outcome |-> "none", value |-> PyNone]

\* the session fields as they stand
Session == [connected |-> connected, ip_address |-> ip_address, homed |-> homed,
            current_process |-> current_process, socket |-> socket,
            selector |-> selector, watched |-> watched]

\* the driver as a call finds it, with the call's environment xs
Driver(xs) == [connected |-> connected, ip_address |-> ip_address, homed |-> homed,
               current_process |-> current_process, socket |-> socket,
               selector |-> selector, watched |-> watched,
               sent |-> <<>>, marks |-> <<>>, xs |-> xs, starved |-> FALSE]

\* the handler the call names
Run(c, d) ==
    CASE c.name = "OpenConnection" -> OpenConnection(d, c.ip, c.connect, c.fd)
      [] c.name = "Initialize" -> Initialize(d)
      [] c.name = "ExecuteOperation" ->
            ExecuteOperation(d, c.operation, c.parameter_names, c.parameter_values)
      [] c.name = "Abort" -> Abort(d)
      [] c.name = "monitor_process_completion" ->
            monitor_process_completion(d, c.process_id, c.timeout)

\* the ways call c can run from the current state: the environment is
\* extended by one outcome for as long as the call writes another command
RECURSIVE Behaviours(_, _)
RECURSIVE Extend(_, _, _)
Behaviours(c, xs) == Extend(c, xs, Run(c, Driver(xs)))

Extend(c, xs, out) ==
    IF ~out.d.starved THEN {[xs |-> xs, out |-> out]}
    ELSE IF Len(xs) >= MaxExchanges THEN {}
    ELSE UNION {Behaviours(c, Append(xs, x)) : x \in Outcomes}

\* call c runs to its end: the driver is left as the handler leaves it
Returns(c) ==
    /\ \E b \in Behaviours(c, <<>>) :
          /\ connected' = b.out.d.connected
          /\ ip_address' = b.out.d.ip_address
          /\ homed' = b.out.d.homed
          /\ current_process' = b.out.d.current_process
          /\ socket' = b.out.d.socket
          /\ selector' = b.out.d.selector
          /\ watched' = b.out.d.watched
          /\ call' = [c EXCEPT !.xs = b.xs]
          /\ pre' = Session
          /\ sent' = b.out.d.sent
          /\ marks' = b.out.d.marks
          /\ result' = [outcome |-> b.out.outcome, value |-> b.out.value]

(* The UI makes a call and blocks until it ends *)

CallOpenConnection ==
    /\ call = NoCall
    /\ \E ip \in Ips, connect \in ConnectOutcomes, fd \in Fds :
          Returns([NoCall EXCEPT !.name = "OpenConnection", !.ip = ip,
                                 !.connect = connect, !.fd = fd])

CallInitialize ==
    /\ call = NoCall
    /\ Returns([NoCall EXCEPT !.name = "Initialize"])

CallExecuteOperation ==
    /\ call = NoCall
    /\ \E operation \in Operations, parameter_names \in Lists(Names),
          parameter_values \in Lists(Values) :
          Returns([NoCall EXCEPT !.name = "ExecuteOperation",
                                 !.operation = operation,
                                 !.parameter_names = parameter_names,
                                 !.parameter_values = parameter_values])

CallAbort ==
    /\ call = NoCall
    /\ Returns([NoCall EXCEPT !.name = "Abort"])

\* the UI takes the result (or catches the exception) and is ready to call again
UIReady ==
    /\ call # NoCall
    /\ call' = NoCall
    /\ result' = NoResult
    /\ sent' = <<>>
    /\ marks' = <<>>
    /\ pre' = Session
    /\ UNCHANGED <<connected, ip_address, homed, current_process, socket,
                   selector, watched>>

Next == \/ CallOpenConnection
        \/ CallInitialize
        \/ CallExecuteOperation
        \/ CallAbort
        \/ UIReady

\* MockRobotDriver.__init__
Init ==
    /\ connected = FALSE
    /\ ip_address = None
    /\ homed = FALSE
    /\ current_process = None
    /\ socket = None
    /\ selector = {}
    /\ watched = {}
    /\ call = NoCall
    /\ pre = Session
    /\ sent = <<>>
    /\ marks = <<>>
    /\ result = NoResult

Spec == Init /\ [][Next]_vars

(* A prepared session: the test fixture opens the connection and may set    *)
(* the session fields directly ("Could also set homed = True for testing"). *)
(* The fields are drawn from their domains, on a constructed driver or on   *)
(* one whose connection OpenConnection has opened.                          *)
InitPrepared ==
    /\ connected \in BOOLEAN
    /\ homed \in {h \in BOOLEAN : h => connected}
    /\ current_process \in {None} \cup {Some(p) : p \in Pids}
    /\ \E fd \in Fds, ip \in Ips :
          /\ ip_address = IF connected THEN Some(ip) ELSE None
          /\ socket = IF connected THEN Some([fd |-> fd, closed |-> FALSE]) ELSE None
          /\ selector = IF connected THEN {fd} ELSE {}
          /\ watched = IF connected THEN {fd} ELSE {}
    /\ call = NoCall
    /\ pre = Session
    /\ sent = <<>>
    /\ marks = <<>>
    /\ result = NoResult

SpecPrepared == InitPrepared /\ [][Next]_vars

(* The polling loop on its own: monitor_process_completion is called, as    *)
(* try_process and Initialize call it, on a connected session whose         *)
(* current_process may hold a process id.                                   *)
CallMonitorProcessCompletion ==
    /\ call = NoCall
    /\ \E process_id \in Pids, timeout \in MonitorTimeouts :
          Returns([NoCall EXCEPT !.name = "monitor_process_completion",
                                 !.process_id = process_id,
                                 !.timeout = timeout])

NextMonitor == \/ CallMonitorProcessCompletion
               \/ UIReady

InitMonitor == InitPrepared /\ connected

SpecMonitor == InitMonitor /\ [][NextMonitor]_vars

-----------------------------------------------------------------------------
(* Properties *)

\* how a call's result reads
Returned == result.outcome = "return"
ReturnedString == Returned /\ result.value.type = "str"
ReturnedEmpty == ReturnedString /\ result.value.val = <<>>
ReturnedError == ReturnedString /\ result.value.val # <<>>
\* the returned string opens with lead
Leads(lead) == ReturnedError /\ result.value.val[1] = lead

NotConnectedLead ==
    "Error: MockRobot is not connected. Press 'Open Connection' and then try your request again."
NotInitializedLead ==
    "Error: MockRobot is not initialized. Press 'Initialize' and then try your request again."
ProcessRunningLead == "Error: Another process is already running (process_id:"
InvalidOperationLead ==
    "Validation Error: Invalid operation. Supported operations are Pick, Place, and Transfer."
InvalidNameLead == "Validation Error: Invalid parameter name: "
InvalidValueLead == "Validation Error: Invalid parameter value: "

\* the call left connected, homed and current_process as it found them
SessionUnchanged ==
    /\ connected = pre.connected
    /\ homed = pre.homed
    /\ current_process = pre.current_process

\* the inputs of the last call, judged without validate_inputs
BadName(name) == name \notin {"Source Location", "Destination Location"}
BadValue(value) == value < RangeStart \/ value >= RangeStop
SomeBadName == \E i \in 1..Len(call.parameter_names) : BadName(call.parameter_names[i])
SomeBadValue == \E i \in 1..Len(call.parameter_values) : BadValue(call.parameter_values[i])
IsOperationMember == call.operation \in {Operation.PICK, Operation.PLACE, Operation.TRANSFER}
InvalidInputs == ~IsOperationMember \/ SomeBadName \/ SomeBadValue

(* C1: mutual exclusion.  ExecuteOperation on a connected, homed driver     *)
(* whose current_process holds p returns the process-running error naming   *)
(* p, whatever the operation and parameters, writes nothing to the socket   *)
(* and leaves connected, homed and current_process as they were.            *)
C1_MutualExclusion ==
    (/\ call.name = "ExecuteOperation"
     /\ pre.connected /\ pre.homed /\ pre.current_process # None)
    => /\ Leads(ProcessRunningLead)
       /\ result.value.val[2] = ToString(pre.current_process[1])
       /\ sent = <<>>
       /\ SessionUnchanged

C1_Witness ==
    /\ call.name = "ExecuteOperation"
    /\ call.operation = Operation.TRANSFER
    /\ call.parameter_names = <<"Source Location", "Destination Location">>
    /\ call.parameter_values = <<RangeStart, RangeStop - 1>>
    /\ pre.connected /\ pre.homed /\ pre.current_process = Some(MaxPid)
    /\ Leads(ProcessRunningLead)

(* C2: every call returns a string, empty or not: no call ends in an        *)
(* uncaught exception and none returns a value that is not a string.        *)
C2_AlwaysReturnsString ==
    call.name # "none" => ReturnedString

(* C3: homed implies connected, in every state.                             *)
C3_HomedImpliesConnected == homed => connected

C3_Witness ==
    /\ call.name = "ExecuteOperation"
    /\ homed /\ connected

(* C4: ip_address is set exactly when connected is true, in every state.    *)
C4_IpSetIffConnected == (ip_address # None) <=> connected

C4_Witness ==
    /\ call.name = "OpenConnection"
    /\ ~pre.connected
    /\ connected /\ ip_address = Some(call.ip)

(* C5: ExecuteOperation checks connected, then homed, then no process in    *)
(* flight, then the inputs: the error returned is that of the first check   *)
(* that fails, whatever the later checks would say.                         *)
C5_PreconditionOrder ==
    call.name = "ExecuteOperation" =>
       /\ ~pre.connected => Leads(NotConnectedLead)
       /\ (pre.connected /\ ~pre.homed) => Leads(NotInitializedLead)
       /\ (pre.connected /\ pre.homed /\ pre.current_process # None)
             => Leads(ProcessRunningLead)
       /\ (pre.connected /\ pre.homed /\ pre.current_process = None /\ InvalidInputs)
             => \/ Leads(InvalidOperationLead)
                \/ Leads(InvalidNameLead)
                \/ Leads(InvalidValueLead)

C5_Witness ==
    /\ call.name = "ExecuteOperation"
    /\ pre.connected /\ ~pre.homed /\ pre.current_process # None
    /\ InvalidInputs
    /\ Leads(NotInitializedLead)

\* the robot answered the call's first command with process id p
Started(p) == call.xs # <<>> /\ call.xs[1] = ToString(p)
\* the last thing the robot said during the call
LastAnswer == call.xs[Len(call.xs)]
\* the call wrote command first, unless send() itself failed
Wrote(command) ==
    /\ call.xs # <<>>
    /\ call.xs[1] # "send_error" => (sent # <<>> /\ sent[1] = command)
\* connected, homed, no process in flight
ReadySession == pre.connected /\ pre.homed /\ pre.current_process = None

(* C6: on a connected, homed driver with no process in flight,              *)
(* ExecuteOperation(Pick, ["Source Location"], [v]) with v in 1..17 sends   *)
(* pick%v; when the robot answers a process id p >= 0 the process is        *)
(* started (its status is polled), and the call returns the empty string    *)
(* once the robot reports Finished Successfully.  Likewise Place with       *)
(* ["Destination Location"] and place%v.                                    *)
C6_PickPlaceSucceeds ==
    (/\ call.name = "ExecuteOperation"
     /\ ReadySession
     /\ \/ /\ call.operation = Operation.PICK
           /\ call.parameter_names = <<"Source Location">>
        \/ /\ call.operation = Operation.PLACE
           /\ call.parameter_names = <<"Destination Location">>
     /\ Len(call.parameter_values) = 1
     /\ ~BadValue(call.parameter_values[1]))
    => /\ Wrote((IF call.operation = Operation.PICK THEN "pick%" ELSE "place%")
                \o ToString(call.parameter_values[1]))
       /\ \A p \in Pids : Started(p) =>
             /\ Len(sent) >= 2 /\ sent[2] = "status%" \o ToString(p)
             /\ LastAnswer = "Finished Successfully" => ReturnedEmpty

(* C7: Initialize on a connected driver sends home; it returns the empty    *)
(* string with homed true and current_process cleared when the homing       *)
(* finishes successfully, and a non-empty failure string with homed false   *)
(* in every other case.                                                     *)
C7_InitializeHomes ==
    (call.name = "Initialize" /\ pre.connected)
    => /\ Wrote("home")
       /\ ReturnedString
       /\ ReturnedEmpty => (homed /\ current_process = None)
       /\ ReturnedError => ~homed

(* C8: Initialize on a connected and already homed driver is not rejected:  *)
(* home is sent again, and when that homing finishes successfully the call  *)
(* returns the empty string and homed is true.                              *)
C8_ReInitializeHomes ==
    (call.name = "Initialize" /\ pre.connected /\ pre.homed)
    => /\ Wrote("home")
       /\ Returned
       /\ ((\E p \in Pids : Started(p)) /\ LastAnswer = "Finished Successfully")
             => (ReturnedEmpty /\ homed)

KnownKind == call.operation.val \in {<<"Pick">>, <<"Place">>, <<"Transfer">>}

(* C10: validation is fail-fast, operation then names then values: an       *)
(* operation that is none of Pick, Place, Transfer (the tests pass them as  *)
(* strings) yields the invalid-operation error whatever the names and       *)
(* values; with a known operation the first invalid name yields the         *)
(* invalid-parameter-name error whatever the values; with a known           *)
(* operation and valid names the first value outside 1..17 yields the       *)
(* invalid-parameter-value error.                                           *)
C10_ValidationOrder ==
    (call.name = "ExecuteOperation" /\ ReadySession)
    => /\ ~KnownKind => Leads(InvalidOperationLead)
       /\ (KnownKind /\ SomeBadName) =>
             /\ Leads(InvalidNameLead)
             /\ \E i \in 1..Len(call.parameter_names) :
                   /\ BadName(call.parameter_names[i])
                   /\ \A j \in 1..(i-1) : ~BadName(call.parameter_names[j])
                   /\ result.value.val[2] = call.parameter_names[i]
       /\ (KnownKind /\ ~SomeBadName /\ SomeBadValue) =>
             /\ Leads(InvalidValueLead)
             /\ \E i \in 1..Len(call.parameter_values) :
                   /\ BadValue(call.parameter_values[i])
                   /\ \A j \in 1..(i-1) : ~BadValue(call.parameter_values[j])
                   /\ result.value.val[2] = ToString(call.parameter_values[i])

\* the driver as the last call found it, in the environment xs
PreDriver(xs) == [connected |-> pre.connected, ip_address |-> pre.ip_address,
                  homed |-> pre.homed, current_process |-> pre.current_process,
                  socket |-> pre.socket, selector |-> pre.selector,
                  watched |-> pre.watched,
                  sent |-> <<>>, marks |-> <<>>, xs |-> xs, starved |-> FALSE]

\* the first place of name among the last call's parameter_names
NameIndex(name) ==
    CHOOSE i \in 1..Len(call.parameter_names) :
        /\ call.parameter_names[i] = name
        /\ \A j \in 1..(i-1) : call.parameter_names[j] # name
HasName(name) == \E i \in 1..Len(call.parameter_names) : call.parameter_names[i] = name

\* a Transfer that gets as far as its pick leg
TransferRuns ==
    /\ call.name = "ExecuteOperation"
    /\ ReadySession
    /\ call.operation = Operation.TRANSFER
    /\ ~SomeBadName /\ ~SomeBadValue
    /\ HasName("Source Location") /\ HasName("Destination Location")
    /\ NameIndex("Source Location") <= Len(call.parameter_values)
    /\ NameIndex("Destination Location") <= Len(call.parameter_values)
SourceValue == call.parameter_values[NameIndex("Source Location")]
DestinationValue == call.parameter_values[NameIndex("Destination Location")]

\* the robot started the first command's process and, after k - 1 status
\* answers of which the last is Finished Successfully, the process is done
FinishedAt(k) ==
    /\ k >= 2 /\ k <= Len(call.xs)
    /\ \E p \in Pids : Started(p)
    /\ call.xs[k] = "Finished Successfully"
    /\ \A j \in 2..(k-1) : call.xs[j] = "In Progress"
PickLegFinished == \E k \in 1..Len(call.xs) : FinishedAt(k)

IsPlaceCommand(command) == \E v \in Values : command = "place%" \o ToString(v)

(* C11: in a Transfer, pick%<source> is written first and place%<dest> is   *)
(* written only once the pick process has finished successfully, source and *)
(* dest being the values at the places of "Source Location" and             *)
(* "Destination Location"; when the pick leg fails, no place command is     *)
(* written and the Transfer returns exactly what the pick alone returns.    *)
C11_TransferAtomicFailure ==
    TransferRuns
    => /\ Wrote("pick%" \o ToString(SourceValue))
       /\ \A i \in 1..Len(sent) :
             IsPlaceCommand(sent[i]) =>
                /\ sent[i] = "place%" \o ToString(DestinationValue)
                /\ FinishedAt(i - 1)
       /\ ~PickLegFinished =>
             /\ \A i \in 1..Len(sent) : ~IsPlaceCommand(sent[i])
             /\ Leads("Pick command failed: ")
             /\ result.value = pick(PreDriver(call.xs), SourceValue).value

C11_Witness ==
    /\ TransferRuns
    /\ call.parameter_names = <<"Destination Location", "Source Location">>
    /\ call.parameter_values = <<RangeStart, RangeStop - 1>>
    /\ call.xs = <<"no_reply">>
    /\ sent = <<"pick%" \o ToString(RangeStop - 1)>>
    /\ result.value = Str(<<"Pick command failed: ",
                            "Error: Timeout waiting for response.">>)

(* C12: Abort on a connected driver while current_process is set returns   *)
(* the process-running error and does not preempt the process: the socket  *)
(* stays open, and connected, ip_address, homed and current_process are as *)
(* they were.                                                               *)
C12_AbortDoesNotPreempt ==
    (call.name = "Abort" /\ pre.connected /\ pre.current_process # None)
    => /\ Leads(ProcessRunningLead)
       /\ socket = pre.socket /\ ~socket[1].closed
       /\ connected
       /\ ip_address = pre.ip_address
       /\ homed = pre.homed
       /\ current_process = pre.current_process

(* C13: Abort on a connected driver with no process in flight returns the   *)
(* empty string, closes the socket and leaves connected false, ip_address   *)
(* unset, homed false and current_process unset; Abort on a driver that is  *)
(* not connected returns the not-connected error and changes nothing.       *)
C13_AbortDisconnects ==
    call.name = "Abort" =>
       /\ (pre.connected /\ pre.current_process = None) =>
             /\ ReturnedEmpty
             /\ socket # None /\ socket[1].closed
             /\ socket[1].fd = pre.socket[1].fd
             /\ ~connected
             /\ ip_address = None
             /\ ~homed
             /\ current_process = None
       /\ ~pre.connected =>
             /\ Leads(NotConnectedLead)
             /\ Session = pre
             /\ sent = <<>>

C13_Witness ==
    /\ call.name = "Abort"
    /\ pre.connected /\ pre.homed /\ pre.current_process = None
    /\ pre.ip_address # None /\ ~pre.socket[1].closed
    /\ ReturnedEmpty
    /\ ~connected /\ ~homed /\ ip_address = None /\ socket[1].closed

(* C14: OpenConnection(b) while a connection to a is open returns the       *)
(* already-open error, which names a, creates no socket, and leaves socket, *)
(* connected, ip_address = a, homed and current_process (and what the       *)
(* selector holds) as they were, for every a and b.                         *)
C14_SecondOpenRejected ==
    (call.name = "OpenConnection" /\ pre.connected)
    => /\ Leads("Connection already open on ")
       /\ pre.ip_address # None /\ result.value.val[2] = pre.ip_address[1]
       /\ Session = pre
       /\ sent = <<>>

C14_Witness ==
    /\ call.name = "OpenConnection"
    /\ call.connect = "ok"
    /\ pre.connected /\ pre.homed /\ pre.current_process # None
    /\ pre.ip_address # Some(call.ip)
    /\ pre.socket[1].fd # call.fd
    /\ Leads("Connection already open on ")
    /\ ip_address = pre.ip_address /\ socket = pre.socket

\* the polling loop ran for a process marked as in flight
MonitorRuns ==
    /\ call.name = "monitor_process_completion"
    /\ pre.current_process # None
\* the robot answered In Progress to every status query of the call
AllInProgress ==
    /\ call.xs # <<>>
    /\ \A i \in 1..Len(call.xs) : call.xs[i] = "In Progress"
\* the last poll was terminal: a status other than In Progress, a text that
\* is no status, no answer, or a socket error
LastPollTerminal == call.xs # <<>> /\ LastAnswer # "In Progress"
HardResetLead == "Error: Process timeout. Consider hard reset of instrument."

(* C15: when the process is still In Progress once the elapsed polling time *)
(* exceeds the timeout, the polling returns the error that advises a hard   *)
(* reset of the instrument, no sooner, and current_process is None when it  *)
(* returns.                                                                 *)
C15_TimeoutClearsMarker ==
    (MonitorRuns /\ AllInProgress)
    => /\ Leads(HardResetLead)
       /\ Len(call.xs) * PollInterval > call.timeout
       /\ current_process = None

(* C16: current_process is cleared on every terminal outcome of the         *)
(* polling, not only on success: when the last poll yields Finished         *)
(* Successfully, Terminated With Error or a status-query error, the polling *)
(* returns and current_process is None (so that the next ExecuteOperation   *)
(* is not rejected with the process-running error).                         *)
C16_MarkerClearedOnTerminal ==
    (MonitorRuns /\ LastPollTerminal)
    => /\ Returned
       /\ current_process = None

(* C17: when OpenConnection on a disconnected driver fails to connect       *)
(* (socket creation, timeout or refusal), it returns the connect-failed     *)
(* error, the socket it created is closed, it registers nothing with the    *)
(* selector, and the driver stays unconnected with ip_address unset and     *)
(* homed false; no OpenConnection on an unconnected driver is rejected as   *)
(* already open.                                                            *)
C17_ConnectFailureReleases ==
    (call.name = "OpenConnection" /\ ~pre.connected)
    => /\ ~Leads("Connection already open on ")
       /\ call.connect # "ok" =>
             /\ Leads("Error: Failed to connect: ")
             /\ socket = None \/ socket[1].closed
             /\ selector = pre.selector
             /\ socket # None => socket[1].fd \notin watched
             /\ ~connected
             /\ ip_address = None
             /\ ~homed

(* C18: during a Transfer the marker is held from the start of the pick     *)
(* leg's process until the place leg has ended: once the robot has started  *)
(* the pick process, every further command of the call (the status          *)
(* queries, the place command) is written with current_process set, and     *)
(* current_process is None again only after a leg was polled to its end.    *)
C18_MarkerHeldThroughTransfer ==
    (TransferRuns /\ \E p \in Pids : Started(p))
    => /\ \A i \in 2..Len(sent) : marks[i] # None
       /\ current_process = None => Len(sent) >= 2

IsStartCommand(command) ==
    \/ command = "home"
    \/ \E v \in Values : command \in {"pick%" \o ToString(v), "place%" \o ToString(v)}

C20_MonitoringTerminates ==
    MonitorRuns
    => /\ Returned
       /\ \A i \in 1..(Len(call.xs) - 1) : call.xs[i] = "In Progress"
       /\ \A i \in 1..Len(sent) : sent[i] = "status%" \o ToString(call.process_id)
       /\ AllInProgress =>
             /\ Leads(HardResetLead)
             /\ Len(call.xs) * PollInterval > call.timeout

\* a Pick or a Place that gets as far as its process-start command
StartsOneProcess ==
    /\ call.name = "ExecuteOperation"
    /\ ReadySession
    /\ call.operation \in {Operation.PICK, Operation.PLACE}
    /\ ~SomeBadName /\ ~SomeBadValue
    /\ call.parameter_values # <<>>
    /\ call.xs # <<>>
\* what the robot answered to the process-start command
StartReply == call.xs[1]
\* what try_process returned, as pick and place quote it after their own lead
StartError == IF ReturnedString /\ Len(result.value.val) >= 2
              THEN result.value.val[2] ELSE ""
StartErrorQuotes(text) ==
    ReturnedString /\ \E i \in 2..Len(result.value.val) : result.value.val[i] = text
UnknownResponseLead == "Error: Unknown response: "
ResponseTimeoutLead == "Error: Timeout waiting for response."

(* C21: the reply to a process-start command is classified: a text with a   *)
(* leading "Error:" yields a remote-error result, which is not the          *)
(* malformed-response error; a negative integer yields the                  *)
(* process-already-running error and sets no marker; a non-negative integer *)
(* n starts the process with current_process = n (the status query that     *)
(* follows is written with the marker n); any other text yields the         *)
(* malformed-response error; no reply within the timeout yields the         *)
(* response-timeout error; in every error case current_process is as it     *)
(* was.                                                                     *)
C21_ReplyClassified ==
    StartsOneProcess
    => /\ StartReply = "Error: busy" =>
             /\ ReturnedError
             /\ StartError # UnknownResponseLead
             /\ StartErrorQuotes("Error: busy")
             /\ current_process = pre.current_process
       /\ StartReply = ToString(0 - 1) =>
             /\ StartError = ProcessRunningLead
             /\ current_process = pre.current_process
             /\ Len(sent) = 1
       /\ \A n \in Pids : StartReply = ToString(n) =>
             /\ Len(marks) >= 2
             /\ marks[2] = Some(n)
       /\ StartReply \in {"In Progress", "Finished Successfully", "Terminated With Error"} =>
             /\ StartError = UnknownResponseLead
             /\ StartErrorQuotes(StartReply)
             /\ current_process = pre.current_process
       /\ StartReply = "no_reply" =>
             /\ StartError = ResponseTimeoutLead
             /\ current_process = pre.current_process

(* C22: closing the connection deregisters the socket: in every state the   *)
(* selector holds no socket when the driver is disconnected and exactly the *)
(* current open socket when it is connected, so that an OpenConnection to a *)
(* reachable robot on a disconnected driver succeeds, after any number of   *)
(* OpenConnection / Abort cycles.                                           *)
C22_SelectorTracksSocket ==
    /\ ~connected => selector = {}
    /\ connected =>
          /\ socket # None /\ ~socket[1].closed
          /\ selector = {socket[1].fd}
    /\ (call.name = "OpenConnection" /\ ~pre.connected /\ call.connect = "ok")
          => (ReturnedEmpty /\ connected)

(* C23: no command is written to the wire while connected is false:         *)
(* Initialize and ExecuteOperation on a disconnected driver (fresh, after a *)
(* failed OpenConnection, or after Abort) return the not-connected error,   *)
(* send nothing, and leave connected, ip_address, homed and current_process *)
(* as they were.                                                            *)
C23_NothingSentWhileDisconnected ==
    /\ ~pre.connected => sent = <<>>
    /\ (call.name \in {"Initialize", "ExecuteOperation"} /\ ~pre.connected)
          => /\ Leads(NotConnectedLead)
             /\ Len(result.value.val) = 1
             /\ SessionUnchanged
             /\ ip_address = pre.ip_address
             /\ socket = pre.socket

\* after an Abort: the socket of the closed connection is still held
C23_Witness ==
    /\ call.name = "ExecuteOperation"
    /\ call.operation = Operation.PICK
    /\ call.parameter_values = <<RangeStart>>
    /\ ~pre.connected
    /\ pre.socket # None /\ pre.socket[1].closed
    /\ Leads(NotConnectedLead)
    /\ sent = <<>>

=============================================================================
